---- MODULE Spec2Model ----
(***************************************************************************)
(* A model of image_metadata_extractor/metadata_extractor.py: the EXIF and *)
(* XMP extractors, the six section formatters, format_image_metadata,      *)
(* save_metadata and the batch entry point.                                *)
(*                                                                         *)
(* Python strings are TLA+ strings, read character by character with       *)
(* SubSeq; dictionaries are functions from key strings to values; an       *)
(* Optional[Dict] is a record [none, d].                                   *)
(***************************************************************************)
EXTENDS Integers, Sequences, FiniteSets, TLC

(***************************************************************************)
(* Python str primitives                                                   *)
(***************************************************************************)
Ch(s, i) == SubSeq(s, i, i)

UPPER == "ABCDEFGHIJKLMNOPQRSTUVWXYZ"
LOWER == "abcdefghijklmnopqrstuvwxyz"
DIGITS == "0123456789"
SPACES == " \n\t\r"

\* str.find for a single character: the 1-based index of c in s, 0 if absent
IndexOf(c, s) ==
  IF \E i \in 1..Len(s) : Ch(s, i) = c
  THEN CHOOSE i \in 1..Len(s) : Ch(s, i) = c /\ \A j \in 1..(i - 1) : Ch(s, j) # c
  ELSE 0

IsUpper(c) == Len(c) = 1 /\ IndexOf(c, UPPER) > 0
IsLower(c) == Len(c) = 1 /\ IndexOf(c, LOWER) > 0
IsDigit(c) == Len(c) = 1 /\ IndexOf(c, DIGITS) > 0
IsSpace(c) == Len(c) = 1 /\ IndexOf(c, SPACES) > 0

LowerCh(c) == IF IsUpper(c) THEN Ch(LOWER, IndexOf(c, UPPER)) ELSE c
UpperCh(c) == IF IsLower(c) THEN Ch(UPPER, IndexOf(c, LOWER)) ELSE c

RECURSIVE lower(_)
lower(s) == IF s = "" THEN "" ELSE LowerCh(Head(s)) \o lower(Tail(s))

RECURSIVE lstrip(_)
lstrip(s) == IF s # "" /\ IsSpace(Head(s)) THEN lstrip(Tail(s)) ELSE s

RECURSIVE rstrip(_)
rstrip(s) ==
  IF s # "" /\ IsSpace(Ch(s, Len(s))) THEN rstrip(SubSeq(s, 1, Len(s) - 1)) ELSE s

\* str.strip(): leading and trailing whitespace removed
strip(s) == rstrip(lstrip(s))

startswith(s, p) == Len(p) <= Len(s) /\ SubSeq(s, 1, Len(p)) = p

\* the Python test `sub in s`
Contains(s, sub) ==
  \E i \in 1..(Len(s) - Len(sub) + 1) : SubSeq(s, i, i + Len(sub) - 1) = sub

\* str.replace(old, new), old non-empty: leftmost non-overlapping occurrences
RECURSIVE replace(_, _, _)
replace(s, old, new) ==
  IF s = "" THEN ""
  ELSE IF startswith(s, old)
       THEN new \o replace(SubSeq(s, Len(old) + 1, Len(s)), old, new)
       ELSE Head(s) \o replace(Tail(s), old, new)

\* str.split(sep), sep one character: the sequence of pieces
RECURSIVE split(_, _)
split(s, sep) ==
  LET i == IndexOf(sep, s)
  IN IF i = 0 THEN <<s>>
     ELSE <<SubSeq(s, 1, i - 1)>> \o split(SubSeq(s, i + 1, Len(s)), sep)

\* str.split() without argument: the whitespace-separated words
RECURSIVE words(_)
words(s) ==
  LET t == lstrip(s)
      n == IF \E i \in 1..Len(t) : IsSpace(Ch(t, i))
           THEN (CHOOSE i \in 1..Len(t) :
                   IsSpace(Ch(t, i)) /\ \A j \in 1..(i - 1) : ~IsSpace(Ch(t, j))) - 1
           ELSE Len(t)
  IN IF t = "" THEN <<>>
     ELSE <<SubSeq(t, 1, n)>> \o words(SubSeq(t, n + 1, Len(t)))

\* str.title(): a cased character is upper-cased after an uncased one and
\* lower-cased after a cased one
RECURSIVE titleFrom(_, _)
titleFrom(s, prevCased) ==
  IF s = "" THEN ""
  ELSE LET c == Head(s)
           cased == IsUpper(c) \/ IsLower(c)
       IN (IF prevCased THEN LowerCh(c) ELSE UpperCh(c)) \o titleFrom(Tail(s), cased)

title(s) == titleFrom(s, FALSE)

\* str(int)
IntStr(n) == ToString(n)

RECURSIVE Pow10(_)
Pow10(k) == IF k = 0 THEN 1 ELSE 10 * Pow10(k - 1)

Abs(n) == IF n < 0 THEN -n ELSE n

(***************************************************************************)
(* Python float(): the decimal literal forms  [ws][+-]digits[.digits][ws]  *)
(* and  [ws][+-].digits[ws].  The value is (-1)^neg * mant / 10^scale.     *)
(* Anything else raises ValueError (ok = FALSE).  The exponent, underscore,*)
(* "inf" and "nan" spellings that float() also accepts are not modelled;   *)
(* no input set below holds one.                                           *)
(***************************************************************************)
AllDigits(s) == \A i \in 1..Len(s) : IsDigit(Ch(s, i))

RECURSIVE DigitsVal(_)
DigitsVal(s) ==
  IF s = "" THEN 0
  ELSE 10 * DigitsVal(SubSeq(s, 1, Len(s) - 1)) + (IndexOf(Ch(s, Len(s)), DIGITS) - 1)

NotANumber == [ok |-> FALSE, neg |-> FALSE, mant |-> 0, scale |-> 0]

float(s) ==
  LET t == strip(s)
      signed == t # "" /\ Head(t) \in {"+", "-"}
      neg == signed /\ Head(t) = "-"
      body == IF signed THEN Tail(t) ELSE t
      dot == IndexOf(".", body)
      ip == IF dot = 0 THEN body ELSE SubSeq(body, 1, dot - 1)
      fp == IF dot = 0 THEN "" ELSE SubSeq(body, dot + 1, Len(body))
  IN IF AllDigits(ip) /\ AllDigits(fp) /\ Len(ip) + Len(fp) > 0
     THEN [ok |-> TRUE, neg |-> neg, mant |-> DigitsVal(ip \o fp), scale |-> Len(fp)]
     ELSE NotANumber

\* int(x) of a float: truncation toward zero, as a signed integer
TruncInt(f) ==
  LET q == f.mant \div Pow10(f.scale) IN IF f.neg THEN -q ELSE q

\* x != 0 of a float
NonZero(f) == f.mant # 0

\* the format spec ":.2f" applied to the exact value num / den (den > 0):
\* rounded to hundredths, ties to even, then sign, integer part, ".", two digits
Fmt2f(num, den) ==
  LET a == Abs(num) * 100
      q == a \div den
      r == a % den
      h == IF 2 * r > den \/ (2 * r = den /\ q % 2 = 1) THEN q + 1 ELSE q
      frac == h % 100
  IN (IF num < 0 THEN "-" ELSE "") \o IntStr(h \div 100) \o "."
       \o (IF frac < 10 THEN "0" ELSE "") \o IntStr(frac)

(***************************************************************************)
(* Values and outcomes                                                     *)
(*                                                                         *)
(* An EXIF value is a string, an int, or a float / rational n/d (d > 0).   *)
(* A call either returns a value or raises an exception.                   *)
(***************************************************************************)
StrV(s) == [k |-> "str", s |-> s, n |-> 0, d |-> 1]
IntV(n) == [k |-> "int", s |-> "", n |-> n, d |-> 1]
FloatV(n, d) == [k |-> "float", s |-> "", n |-> n, d |-> d]

Ret(v) == [raised |-> FALSE, value |-> v]
Raise(e) == [raised |-> TRUE, value |-> e]

None == [none |-> TRUE, d |-> <<>>]
Some(d) == [none |-> FALSE, d |-> d]
\* Python truth of an Optional[Dict]: None and {} are both false
Truthy(o) == ~o.none /\ DOMAIN o.d # {}
\* `o or {}`
OrEmpty(o) == IF Truthy(o) THEN o.d ELSE <<>>
\* dict.get(key, default)
Get(dict, key, default) == IF key \in DOMAIN dict THEN dict[key] ELSE default

\* repr of a float whose decimal expansion ends within six places: the
\* digits, with at least one after the point.  The repr of any other float
\* (seventeen significant digits) is not spelled out.
RECURSIVE FracDigits(_, _)
FracDigits(m, places) ==
  IF places = 1 \/ m % Pow10(places - 1) = 0
  THEN IntStr(m \div Pow10(places - 1))
  ELSE IntStr(m \div Pow10(places - 1)) \o FracDigits(m % Pow10(places - 1), places - 1)

FloatStr(n, d) ==
  IF Pow10(6) % d = 0
  THEN LET m == Abs(n) * (Pow10(6) \div d)
       IN (IF n < 0 THEN "-" ELSE "") \o IntStr(m \div Pow10(6)) \o "."
            \o FracDigits(m % Pow10(6), 6)
  ELSE "<float repr>"

\* str(v), as an f-string renders a value
PyStr(v) ==
  CASE v.k = "str" -> v.s
    [] v.k = "int" -> IntStr(v.n)
    [] OTHER -> FloatStr(v.n, v.d)

(***************************************************************************)
(* camel_to_standard and the regular expressions                           *)
(***************************************************************************)
\* the end of the run of [a-z] that starts at index i of s
RECURSIVE LowerRunEnd(_, _)
LowerRunEnd(s, i) ==
  IF i < Len(s) /\ IsLower(Ch(s, i + 1)) THEN LowerRunEnd(s, i + 1) ELSE i

\* re.sub("(.)([A-Z][a-z]+)", r"\1 \2", s)
RECURSIVE SubUpperLower(_)
SubUpperLower(s) ==
  IF Len(s) < 3 THEN s
  ELSE IF Head(s) # "\n" /\ IsUpper(Ch(s, 2)) /\ IsLower(Ch(s, 3))
       THEN LET j == LowerRunEnd(s, 3)
            IN Head(s) \o " " \o SubSeq(s, 2, j) \o SubUpperLower(SubSeq(s, j + 1, Len(s)))
       ELSE Head(s) \o SubUpperLower(Tail(s))

\* re.sub("([a-z0-9])([A-Z])", r"\1 \2", s)
SpaceLowerUpper(s) ==
  LET RECURSIVE go(_)
      go(t) ==
        IF Len(t) < 2 THEN t
        ELSE IF (IsLower(Head(t)) \/ IsDigit(Head(t))) /\ IsUpper(Ch(t, 2))
             THEN Head(t) \o " " \o Ch(t, 2) \o go(SubSeq(t, 3, Len(t)))
             ELSE Head(t) \o go(Tail(t))
  IN go(s)

camel_to_standard(name) == title(SpaceLowerUpper(SubUpperLower(name)))

\* \w
IsWordCh(c) == IsUpper(c) \/ IsLower(c) \/ IsDigit(c) \/ c = "_"

RECURSIVE WordRunEnd(_, _)
WordRunEnd(s, i) ==
  IF i < Len(s) /\ IsWordCh(Ch(s, i + 1)) THEN WordRunEnd(s, i + 1) ELSE i

RECURSIVE SpaceRunEnd(_, _)
SpaceRunEnd(s, i) ==
  IF i < Len(s) /\ IsSpace(Ch(s, i + 1)) THEN SpaceRunEnd(s, i + 1) ELSE i

\* the index where the repetitions (\s+\1)+\b of w end, scanning s from
\* index `from` (the last index matched so far); `from` itself if none matches
RECURSIVE RepeatEnd(_, _, _)
RepeatEnd(s, w, from) ==
  LET sp == SpaceRunEnd(s, from)
      e == sp + Len(w)
  IN IF sp > from /\ e <= Len(s) /\ SubSeq(s, sp + 1, e) = w
     THEN LET more == RepeatEnd(s, w, e)
          IN IF more > e THEN more
             ELSE IF e = Len(s) \/ ~IsWordCh(Ch(s, e + 1)) THEN e ELSE from
     ELSE from

\* re.sub(r"\b(\w+)(\s+\1)+\b", r"\1", s): a word followed by copies of
\* itself is kept once
RECURSIVE DedupWords(_)
DedupWords(s) ==
  IF s = "" THEN ""
  ELSE IF IsWordCh(Head(s))
       THEN LET e == WordRunEnd(s, 1)
                w == SubSeq(s, 1, e)
                m == RepeatEnd(s, w, e)
            IN w \o DedupWords(SubSeq(s, m + 1, Len(s)))
       ELSE Head(s) \o DedupWords(Tail(s))

(***************************************************************************)
(* constants.py (not part of the sources at hand): the tables the          *)
(* formatters import, as far as the specification and the tests name them  *)
(***************************************************************************)
\* code 1 is "Manual" (test_format_tech_details); other codes of the table
\* are not attested and are left out
EXPOSURE_PROGRAMS == [c \in {1} |-> "Manual"]

POST_PROCESSING_KEYS ==
  << "Contrast", "Saturation", "Clarity2012", "ColorNoiseReduction",
     "PerspectiveScale", "ToneCurveName2012" >>

IMG_DIR == "data/img"
OUTPUT_DIR == "data/output"

(***************************************************************************)
(* The section formatters                                                  *)
(***************************************************************************)
format_camera_settings(xmp_data, exif_data) ==
  LET camera == PyStr(Get(exif_data, "Make", StrV(""))) \o " "
                  \o PyStr(Get(exif_data, "Model", StrV("")))
      deduped == DedupWords(camera)
      lens == PyStr(Get(exif_data, "LensModel", StrV("")))
  IN Ret(strip("Camera: " \o strip(deduped) \o "\nLens: " \o lens))

\* int(1 / shutter_speed) for a number n/d with n # 0: truncation toward zero
IntReciprocal(v) ==
  IF v.n > 0 THEN v.d \div v.n ELSE -(v.d \div (-v.n))

\* the shutter-speed line of format_settings, for a numeric ExposureTime # 0
ShutterLine(shutter_speed) ==
  IF shutter_speed.n < shutter_speed.d
  THEN "Shutter Speed: 1/" \o IntStr(IntReciprocal(shutter_speed)) \o " sec\n"
  ELSE "Shutter Speed: " \o PyStr(shutter_speed) \o " sec\n"

format_settings(xmp_data, exif_data) ==
  LET aperture == IF "FNumber" \in DOMAIN exif_data
                  THEN "Aperture: f/" \o PyStr(exif_data["FNumber"]) \o "\n" ELSE ""
      shutter == IF "ExposureTime" \in DOMAIN exif_data
                 THEN ShutterLine(exif_data["ExposureTime"]) ELSE ""
      iso == IF "ISOSpeedRatings" \in DOMAIN exif_data
             THEN "ISO: " \o PyStr(exif_data["ISOSpeedRatings"]) \o "\n" ELSE ""
      focal == IF "FocalLength" \in DOMAIN exif_data
               THEN "Focal Length: " \o PyStr(exif_data["FocalLength"]) \o " mm\n" ELSE ""
  IN IF "ExposureTime" \in DOMAIN exif_data /\ exif_data["ExposureTime"].k = "str"
     THEN Raise("TypeError")
     ELSE IF "ExposureTime" \in DOMAIN exif_data /\ exif_data["ExposureTime"].n = 0
     THEN Raise("ZeroDivisionError")
     ELSE Ret(strip(aperture \o shutter \o iso \o focal))

format_tech_details(xmp_data, exif_data) ==
  LET program ==
        IF "ExposureProgram" \in DOMAIN exif_data
        THEN LET v == exif_data["ExposureProgram"]
                 name == IF v.k = "int" /\ v.n \in DOMAIN EXPOSURE_PROGRAMS
                         THEN EXPOSURE_PROGRAMS[v.n] ELSE "Unknown"
             IN "Shot in " \o name \o " mode\n"
        ELSE ""
      balance ==
        IF "WhiteBalance" \in DOMAIN exif_data
        THEN LET v == exif_data["WhiteBalance"]
                 white_balance == IF v.k # "str" /\ v.n = 0 THEN "Auto" ELSE "Manual"
             IN "White Balance: " \o white_balance \o "\n"
        ELSE ""
  IN Ret(strip(program \o balance))

crop_keys == << "CropLeft", "CropRight", "CropTop", "CropBottom" >>

\* every edge measured from the near side
CropPercentage_NearSide(key, value) ==
  [num |-> (IF value.neg THEN -value.mant ELSE value.mant) * 100,
   den |-> Pow10(value.scale)]

\* the percentage of one crop key as an exact fraction [num, den]:
\* value * 100 for CropLeft and CropTop, (1 - value) * 100 for the others
CropPercentage(key, value) ==
  LET signed == IF value.neg THEN -value.mant ELSE value.mant
      den == Pow10(value.scale)
  IN IF key \in {"CropLeft", "CropTop"}
     THEN [num |-> signed * 100, den |-> den]
     ELSE [num |-> (den - signed) * 100, den |-> den]

\* what one crop key adds to the output: abs(percentage) > 0.1
CropLine(key, value) ==
  LET percentage == CropPercentage(key, value)
  IN IF Abs(percentage.num) * 10 > percentage.den
     THEN SubSeq(key, 5, Len(key)) \o ": " \o Fmt2f(percentage.num, percentage.den)
            \o "% cropped\n"
     ELSE ""

RECURSIVE CropLoop(_, _, _)
CropLoop(i, xmp_data, output) ==
  IF i > Len(crop_keys) THEN Ret(strip(output))
  ELSE LET key == crop_keys[i]
       IN IF key \in DOMAIN xmp_data
          THEN LET value == float(xmp_data[key])
               IN IF ~value.ok THEN Raise("ValueError")
                  ELSE CropLoop(i + 1, xmp_data, output \o CropLine(key, value))
          ELSE CropLoop(i + 1, xmp_data, output)

format_crop_info(xmp_data, exif_data) == CropLoop(1, xmp_data, "")

\* a numeric value is written whatever it is
PostLine_KeepZero(key, value) ==
  LET float_value == float(value)
      line == camel_to_standard(replace(key, "2012", "")) \o ": " \o value \o "\n"
  IN IF float_value.ok
     THEN IF key = "PerspectiveScale" /\ TruncInt(float_value) = 100 THEN "" ELSE line
     ELSE IF lower(value) \notin {"0", "false", "none", ""} THEN line ELSE ""

\* what one allow-listed key adds to the output of format_post_processing
PostLine(key, value) ==
  LET float_value == float(value)
      line == camel_to_standard(replace(key, "2012", "")) \o ": " \o value \o "\n"
  IN IF float_value.ok
     THEN IF key = "PerspectiveScale" /\ TruncInt(float_value) = 100 THEN ""
          ELSE IF NonZero(float_value) THEN line ELSE ""
     ELSE IF lower(value) \notin {"0", "false", "none", ""} THEN line ELSE ""

RECURSIVE PostLoop(_, _, _)
PostLoop(i, xmp_data, output) ==
  IF i > Len(POST_PROCESSING_KEYS) THEN Ret(strip(output))
  ELSE LET key == POST_PROCESSING_KEYS[i]
       IN IF key \in DOMAIN xmp_data
          THEN PostLoop(i + 1, xmp_data, output \o PostLine(key, xmp_data[key]))
          ELSE PostLoop(i + 1, xmp_data, output)

format_post_processing(xmp_data, exif_data) ==
  PostLoop(1, xmp_data,
           IF "CreatorTool" \in DOMAIN xmp_data
           THEN "Edited in " \o xmp_data["CreatorTool"] \o "\n" ELSE "")

format_capture_date(xmp_data, exif_data) ==
  IF "DateTimeOriginal" \in DOMAIN exif_data
  THEN LET parts == words(PyStr(exif_data["DateTimeOriginal"]))
       IN IF Len(parts) # 2 THEN Raise("ValueError")
          ELSE Ret("Captured on " \o replace(parts[1], ":", "-") \o " at " \o parts[2])
  ELSE Ret("")

(***************************************************************************)
(* format_image_metadata                                                   *)
(***************************************************************************)
\* the emoji of the source's titles are written as :name:
sections ==
  << [title |-> ":camera: Camera Settings Breakdown :camera:", fn |-> "format_camera_settings"],
     [title |-> ":chart: Settings", fn |-> "format_settings"],
     [title |-> ":mag: Tech Details", fn |-> "format_tech_details"],
     [title |-> ":scissors: Crop Info", fn |-> "format_crop_info"],
     [title |-> ":sparkles: Post-Processing", fn |-> "format_post_processing"],
     [title |-> ":date: Capture Date", fn |-> "format_capture_date"] >>

\* format_function(xmp_data, exif_data)
Call(fn, xmp_data, exif_data) ==
  CASE fn = "format_camera_settings" -> format_camera_settings(xmp_data, exif_data)
    [] fn = "format_settings" -> format_settings(xmp_data, exif_data)
    [] fn = "format_tech_details" -> format_tech_details(xmp_data, exif_data)
    [] fn = "format_crop_info" -> format_crop_info(xmp_data, exif_data)
    [] fn = "format_post_processing" -> format_post_processing(xmp_data, exif_data)
    [] fn = "format_capture_date" -> format_capture_date(xmp_data, exif_data)

\* a section followed by an empty line
SectionBlock_BlankLine(section_title, section_content) ==
  IF section_content # ""
  THEN section_title \o "\n" \o section_content \o "\n\n" ELSE ""

\* what one section adds to the output
SectionBlock(section_title, section_content) ==
  IF section_content # "" THEN section_title \o "\n" \o section_content \o "\n" ELSE ""

RECURSIVE SectionLoop(_, _, _, _)
SectionLoop(i, xmp_data, exif_data, output) ==
  IF i > Len(sections) THEN Ret(strip(output))
  ELSE LET section_content == Call(sections[i].fn, xmp_data, exif_data)
       IN IF section_content.raised THEN section_content
          ELSE SectionLoop(i + 1, xmp_data, exif_data,
                           output \o SectionBlock(sections[i].title, section_content.value))

\* the sentinel only for two absent records
format_image_metadata_NoneOnly(xmp_data, exif_data) ==
  IF xmp_data.none /\ exif_data.none
  THEN Ret("No metadata present")
  ELSE SectionLoop(1, OrEmpty(xmp_data), OrEmpty(exif_data), "")

format_image_metadata(xmp_data, exif_data) ==
  IF ~Truthy(xmp_data) /\ ~Truthy(exif_data)
  THEN Ret("No metadata present")
  ELSE SectionLoop(1, OrEmpty(xmp_data), OrEmpty(exif_data), "")

(***************************************************************************)
(* The extractors                                                          *)
(*                                                                         *)
(* An image file is what Image.open finds at its path:                     *)
(*   path      the path it was listed under                                *)
(*   openable  FALSE when Image.open raises                                *)
(*   exif      what img._getexif() does: [kind |-> "none"] (no tag table), *)
(*             [kind |-> "error"] (it raises) or [kind |-> "tags", tags]   *)
(*             with tags a function from numeric tag ids to values         *)
(*   applist   the sequence of segments [segment, xap, wellformed, tree]:  *)
(*             xap says the payload starts with the XMP namespace marker,  *)
(*             wellformed that ET.fromstring accepts the packet, and tree  *)
(*             is the parsed packet as root.iter() visits it: the sequence *)
(*             of elements [tag, text, attrib] in document order, attrib   *)
(*             the sequence of <<name, value>> in the element's order      *)
(***************************************************************************)
\* PIL.ExifTags.TAGS, the entries used here
TAGS ==
  [id \in {271, 272, 33434, 36867} |->
     CASE id = 271 -> "Make"
       [] id = 272 -> "Model"
       [] id = 33434 -> "ExposureTime"
       [] id = 36867 -> "DateTimeOriginal"]

\* the result of get_exif and the lines it prints
get_exif(img) ==
  LET failed == [value |-> None,
                 out |-> << "Error reading EXIF data from " \o img.path \o ": <e>" >>]
  IN IF ~img.openable \/ img.exif.kind = "error" THEN failed
     ELSE IF img.exif.kind = "tags" /\ DOMAIN img.exif.tags # {}
     THEN [value |-> Some([name \in {TAGS[k] : k \in DOMAIN img.exif.tags \cap DOMAIN TAGS}
                             |-> LET k == CHOOSE k \in DOMAIN img.exif.tags \cap DOMAIN TAGS :
                                            TAGS[k] = name
                                 IN img.exif.tags[k]]),
           out |-> <<>>]
     ELSE [value |-> None, out |-> <<>>]

\* a key keeps the first value it was given
Put_KeepFirst(metadata, key, value) ==
  [x \in DOMAIN metadata \cup {key} |->
     IF x \in DOMAIN metadata THEN metadata[x] ELSE value]

\* metadata[key] = value
Put(metadata, key, value) ==
  [x \in DOMAIN metadata \cup {key} |-> IF x = key THEN value ELSE metadata[x]]

\* name.split("}")[1]
LocalName(name) == split(name, "}")[2]

\* the loop over elem.attrib.items()
RECURSIVE AttribLoop(_, _, _)
AttribLoop(attrib, i, metadata) ==
  IF i > Len(attrib) THEN metadata
  ELSE LET name == IF Contains(attrib[i][1], "}")
                   THEN LocalName(attrib[i][1]) ELSE attrib[i][1]
       IN AttribLoop(attrib, i + 1, Put(metadata, name, attrib[i][2]))

\* the body of `for elem in root.iter()` for one element
ElemStep(elem, metadata) ==
  LET withText ==
        IF Contains(elem.tag, "}") /\ elem.text # "" /\ strip(elem.text) # ""
        THEN Put(metadata, LocalName(elem.tag), strip(elem.text))
        ELSE metadata
  IN AttribLoop(elem.attrib, 1, withText)

\* the loop over root.iter()
RECURSIVE IterLoop(_, _, _)
IterLoop(tree, i, metadata) ==
  IF i > Len(tree) THEN metadata
  ELSE IterLoop(tree, i + 1, ElemStep(tree[i], metadata))

\* the first APP1 segment that starts with the XMP marker, 0 if none
FindXmpSegment(applist) ==
  LET hits == {i \in 1..Len(applist) : applist[i].segment = "APP1" /\ applist[i].xap}
  IN IF hits = {} THEN 0 ELSE CHOOSE i \in hits : \A j \in hits : i <= j

get_xmp_metadata(img) ==
  IF ~img.openable THEN Raise("UnidentifiedImageError")
  ELSE LET i == FindXmpSegment(img.applist)
       IN IF i = 0 THEN Ret(None)
          ELSE IF ~img.applist[i].wellformed THEN Raise("ParseError")
          ELSE Ret(Some(IterLoop(img.applist[i].tree, 1, <<>>)))

(***************************************************************************)
(* save_metadata                                                           *)
(***************************************************************************)
\* os.path.basename
basename(path) ==
  LET parts == split(path, "/") IN parts[Len(parts)]

\* OUTPUT_DIR / name
JoinPath(dir, name) == dir \o "/" \o name

\* One call of save_metadata: whether it raised, the value it returned, the
\* lines printed, the paths opened for writing and what was written.
save_metadata(img) ==
  LET exif == get_exif(img)
      xmp == get_xmp_metadata(img)
      formatted_img_data == format_image_metadata(xmp.value, exif.value)
      output_path == JoinPath(OUTPUT_DIR, basename(img.path)) \o ".txt"
  IN IF xmp.raised
     THEN [raised |-> TRUE, value |-> xmp.value, out |-> exif.out,
           opened |-> <<>>, written |-> ""]
     ELSE IF formatted_img_data.raised
     THEN [raised |-> TRUE, value |-> formatted_img_data.value, out |-> exif.out,
           opened |-> <<>>, written |-> ""]
     ELSE [raised |-> FALSE, value |-> output_path, out |-> exif.out,
           opened |-> <<output_path>>, written |-> formatted_img_data.value]

(***************************************************************************)
(* Inputs                                                                  *)
(***************************************************************************)
\* the most keys a generated record holds
MaxKeys == 2
\* the most entries the input directory holds
MaxFiles == 2
\* the most elements a generated XMP packet holds
MaxElems == 3

\* the dictionaries over at most `max` of the keys of `choices`, each key
\* with one of the values choices[key]
Dicts(choices, max) ==
  UNION { { f \in [K -> UNION {choices[k] : k \in K}] : \A k \in K : f[k] \in choices[k] }
          : K \in {S \in SUBSET DOMAIN choices : Cardinality(S) <= max} }

\* crop fractions as the editing tool writes them, by edge: below, at and
\* above the threshold, outside 0..1, and one that is no number
CropChoices ==
  [k \in {"CropLeft"} |-> {"0.001", "0.0011", "0.3333", "-0.002", "abc"}]
    @@ [k \in {"CropRight"} |-> {"0.9995", "0.33337", "1.5"}]
    @@ [k \in {"CropTop"} |-> {"0.001", " 0.25 "}]
    @@ [k \in {"CropBottom"} |-> {"1", "0.875"}]

\* values of the keys format_post_processing reads, and of one it does not
PostChoices ==
  [k \in {"Clarity2012"} |-> {"0", "-0.0", "+42", "False", "", "87 "}]
    @@ [k \in {"ToneCurveName2012"} |-> {"Linear", "None", "Custom "}]
    @@ [k \in {"PerspectiveScale"} |-> {"0", "87", "100", "100.5", "abc"}]
    @@ [k \in {"Rating"} |-> {"0", "5"}]
    @@ [k \in {"CreatorTool"} |-> {"Adobe Lightroom 7.4.1 (Windows)"}]

ExposureTimes ==
  { IntV(2), FloatV(1, 30), FloatV(1, 3), FloatV(2, 5), FloatV(3, 5),
    FloatV(5, 2), IntV(0), StrV("1/30") }

ExifChoices ==
  [k \in {"Make"} |-> {StrV("Canon")}]
    @@ [k \in {"Model"} |-> {StrV("Canon"), StrV("EOS 200D"), StrV("Canon EOS 200D")}]
    @@ [k \in {"LensModel"} |-> {StrV("EF85mm f/1.8 USM")}]
    @@ [k \in {"FNumber"} |-> {FloatV(28, 10)}]
    @@ [k \in {"ExposureTime"} |-> ExposureTimes]
    @@ [k \in {"ISOSpeedRatings"} |-> {IntV(400)}]
    @@ [k \in {"FocalLength"} |-> {FloatV(85, 1)}]
    @@ [k \in {"ExposureProgram"} |-> {IntV(1), IntV(9)}]
    @@ [k \in {"WhiteBalance"} |-> {IntV(0), IntV(1)}]
    @@ [k \in {"DateTimeOriginal"} |-> {StrV("2024:07:30 22:12:59"), StrV("2024:07:30")}]

\* the fixtures of tests/test_main.py, cut to the keys modelled
SampleExif ==
  [Make |-> StrV("Canon"), Model |-> StrV("EOS 200D"),
   LensModel |-> StrV("EF85mm f/1.8 USM"), FNumber |-> FloatV(28, 10),
   ExposureTime |-> FloatV(1, 30), ISOSpeedRatings |-> IntV(400),
   FocalLength |-> FloatV(85, 1), ExposureProgram |-> IntV(1),
   WhiteBalance |-> IntV(0), DateTimeOriginal |-> StrV("2024:07:30 22:12:59")]

SampleXmp ==
  [CreatorTool |-> "Adobe Lightroom 7.4.1 (Windows)", CropLeft |-> "0.3333",
   Contrast |-> "+5", Clarity2012 |-> "+42", Saturation |-> "-3",
   ColorNoiseReduction |-> "25", PerspectiveScale |-> "100",
   ToneCurveName2012 |-> "Linear"]

XmpInputs ==
  {None} \cup {Some(d) : d \in Dicts(CropChoices, MaxKeys) \cup Dicts(PostChoices, MaxKeys)}
ExifInputs == {None} \cup {Some(d) : d \in Dicts(ExifChoices, MaxKeys)}
XmpFew == {None, Some(SampleXmp)}
ExifFew == {None, Some(<<>>), Some(SampleExif)}

\* the section formatters are called with dictionaries, format_image_metadata
\* also with None
FormatInputs ==
  (XmpInputs \X {None, Some(<<>>)}) \cup (XmpFew \X ExifInputs)
    \cup ({None, Some(<<>>), Some(SampleXmp)} \X ExifFew)

\* the elements a generated packet is made of
Elements ==
  { [tag |-> "{adobe:ns:meta/}xmpmeta", text |-> "\n ", attrib |-> <<>>],
    [tag |-> "{rdf}Description", text |-> "",
     attrib |-> << <<"{rdf}about", "">>, <<"{xmp}CreatorTool", "Adobe Lightroom">> >>],
    [tag |-> "{xmp}CreatorTool", text |-> " Photoshop ", attrib |-> <<>>],
    [tag |-> "CreatorTool", text |-> "GIMP", attrib |-> << <<"about", "x">> >>],
    [tag |-> "{crs}CropLeft", text |-> "0.25", attrib |-> << <<"{crs}CropLeft", "0.5">> >>],
    [tag |-> "{crs}about", text |-> "t",
     attrib |-> << <<"{a}Contrast", "1">>, <<"{b}Contrast", "2">> >>] }

Trees == UNION { [1..n -> Elements] : n \in 1..MaxElems }

XmpSegment(tree) == [segment |-> "APP1", xap |-> TRUE, wellformed |-> TRUE, tree |-> tree]
MalformedSegment == [segment |-> "APP1", xap |-> TRUE, wellformed |-> FALSE, tree |-> <<>>]
\* the APP1 segment that holds the EXIF block, and an APP0 one
ExifSegment == [segment |-> "APP1", xap |-> FALSE, wellformed |-> FALSE, tree |-> <<>>]
JfifSegment == [segment |-> "APP0", xap |-> FALSE, wellformed |-> FALSE, tree |-> <<>>]

\* a packet as an editing tool writes it: the settings are attributes
EditedTree ==
  << [tag |-> "{adobe:ns:meta/}xmpmeta", text |-> "\n ", attrib |-> <<>>],
     [tag |-> "{rdf}RDF", text |-> "\n ", attrib |-> <<>>],
     [tag |-> "{rdf}Description", text |-> "",
      attrib |-> << <<"{rdf}about", "">>,
                    <<"{xmp}CreatorTool", "Adobe Lightroom 7.4.1 (Windows)">>,
                    <<"{crs}CropLeft", "0.3333">>, <<"{crs}Contrast", "+5">>,
                    <<"{crs}PerspectiveScale", "100">> >>] >>

SampleTree ==
  << [tag |-> "{adobe:ns:meta/}xmpmeta", text |-> "", attrib |-> <<>>],
     [tag |-> "{rdf}RDF", text |-> "", attrib |-> <<>>],
     [tag |-> "{rdf}Description", text |-> "",
      attrib |-> << <<"{rdf}about", "">>, <<"{xmp}CreatorTool", "Adobe Lightroom">> >>] >>

ExifTables ==
  { [kind |-> "none"], [kind |-> "error"], [kind |-> "tags", tags |-> <<>>],
    [kind |-> "tags", tags |-> (271 :> StrV("Canon") @@ 272 :> StrV("EOS 200D"))],
    [kind |-> "tags", tags |-> (271 :> StrV("Canon") @@ 37500 :> StrV("maker note"))],
    [kind |-> "tags", tags |-> (37500 :> StrV("maker note"))],
    [kind |-> "tags", tags |-> (33434 :> FloatV(1, 30)
                                  @@ 36867 :> StrV("2024:07:30 22:12:59"))] }

AppLists ==
  { <<>>, <<JfifSegment>>, <<JfifSegment, ExifSegment>>, <<MalformedSegment>>,
    <<ExifSegment, XmpSegment(SampleTree)>>,
    <<XmpSegment(SampleTree), MalformedSegment>>,
    <<MalformedSegment, XmpSegment(SampleTree)>> }

Unopenable(path) ==
  [path |-> path, openable |-> FALSE, exif |-> [kind |-> "none"], applist |-> <<>>]
Opened(path, exif, applist) ==
  [path |-> path, openable |-> TRUE, exif |-> exif, applist |-> applist]

ExtractInputs ==
  {Unopenable("test.jpg")}
    \cup {Opened("test.jpg", e, a) : e \in ExifTables, a \in AppLists}
    \cup {Opened("test.jpg", [kind |-> "none"], <<JfifSegment, XmpSegment(t)>>) : t \in Trees}

\* what a directory entry can be: a subdirectory or a file
EntryKinds == {"dir", "unopenable", "plain", "exif", "xmp", "full", "badxmp"}
FileNames == {"a.jpg", "b.jpg", "c.png"}

\* the image file a directory entry of a kind is
EntryImage(name, kind) ==
  LET path == JoinPath(IMG_DIR, name)
  IN CASE kind = "unopenable" -> Unopenable(path)
       [] kind = "plain" -> Opened(path, [kind |-> "none"], <<JfifSegment>>)
       [] kind = "exif" ->
            Opened(path, [kind |-> "tags",
                          tags |-> (271 :> StrV("Canon") @@ 272 :> StrV("EOS 200D"))],
                   <<JfifSegment, ExifSegment>>)
       [] kind = "xmp" -> Opened(path, [kind |-> "error"], <<XmpSegment(SampleTree)>>)
       [] kind = "full" ->
            Opened(path, [kind |-> "tags",
                          tags |-> (271 :> StrV("Canon") @@ 272 :> StrV("EOS 200D")
                                      @@ 33434 :> FloatV(1, 30)
                                      @@ 36867 :> StrV("2024:07:30 22:12:59"))],
                   <<JfifSegment, ExifSegment, XmpSegment(EditedTree)>>)
       [] kind = "badxmp" ->
            Opened(path, [kind |-> "tags", tags |-> (271 :> StrV("Canon"))],
                   <<ExifSegment, MalformedSegment>>)
       [] OTHER -> Unopenable(path)

\* the listings of IMG_DIR: up to MaxFiles entries with distinct names
Listings ==
  UNION { { l \in [1..n -> [name : FileNames, kind : EntryKinds]] :
              \A i, j \in 1..n : i # j => l[i].name # l[j].name }
          : n \in 0..MaxFiles }

(***************************************************************************)
(* State                                                                   *)
(***************************************************************************)
VARIABLES
  xmp_data, exif_data,  \* the arguments of the formatter under call
  image,                \* the image file of the extractor under call
  called,               \* the function called, "" before the call
  result,               \* what the call returned or raised
  listing,              \* the entries of IMG_DIR as os.listdir gives them
  pc,                   \* where the entry point is: start, loop, done, aborted
  img_paths,            \* the regular files among the entries
  idx,                  \* the index in img_paths of the next image
  fs,                   \* the files of OUTPUT_DIR: path -> text
  stdout,               \* the lines printed
  calls                 \* the calls of save_metadata made: image and outcome

vars == << xmp_data, exif_data, image, called, result,
           listing, pc, img_paths, idx, fs, stdout, calls >>

harnessVars == << xmp_data, exif_data, image, called, result >>
mainVars == << listing, pc, img_paths, idx, fs, stdout, calls >>

NoImage == [path |-> "", openable |-> FALSE, exif |-> [kind |-> "none"], applist |-> <<>>]

HarnessIdle ==
  /\ xmp_data = None /\ exif_data = None /\ image = NoImage
  /\ called = "" /\ result = Ret("")

MainIdle ==
  /\ listing = <<>> /\ pc = "off" /\ img_paths = <<>> /\ idx = 0
  /\ fs = <<>> /\ stdout = <<>> /\ calls = <<>>

(***************************************************************************)
(* The formatters under call, one action each                              *)
(***************************************************************************)
InitFormat ==
  /\ \E in \in FormatInputs : xmp_data = in[1] /\ exif_data = in[2]
  /\ image = NoImage /\ called = "" /\ result = Ret("")
  /\ MainIdle

Returns(fn, value) ==
  /\ called = ""
  /\ called' = fn
  /\ result' = value
  /\ UNCHANGED << xmp_data, exif_data, image >>
  /\ UNCHANGED mainVars

Call_format_image_metadata ==
  Returns("format_image_metadata", format_image_metadata(xmp_data, exif_data))

\* the section formatters take dictionaries
BothDicts == ~xmp_data.none /\ ~exif_data.none

Call_format_camera_settings ==
  BothDicts /\ Returns("format_camera_settings", format_camera_settings(xmp_data.d, exif_data.d))

Call_format_settings ==
  BothDicts /\ Returns("format_settings", format_settings(xmp_data.d, exif_data.d))

Call_format_tech_details ==
  BothDicts /\ Returns("format_tech_details", format_tech_details(xmp_data.d, exif_data.d))

Call_format_crop_info ==
  BothDicts /\ Returns("format_crop_info", format_crop_info(xmp_data.d, exif_data.d))

Call_format_post_processing ==
  BothDicts /\ Returns("format_post_processing", format_post_processing(xmp_data.d, exif_data.d))

Call_format_capture_date ==
  BothDicts /\ Returns("format_capture_date", format_capture_date(xmp_data.d, exif_data.d))

NextFormat ==
  \/ Call_format_image_metadata
  \/ Call_format_camera_settings
  \/ Call_format_settings
  \/ Call_format_tech_details
  \/ Call_format_crop_info
  \/ Call_format_post_processing
  \/ Call_format_capture_date

SpecFormat == InitFormat /\ [][NextFormat]_vars

(***************************************************************************)
(* The extractors under call, one action each                              *)
(***************************************************************************)
InitExtract ==
  /\ image \in ExtractInputs
  /\ xmp_data = None /\ exif_data = None /\ called = "" /\ result = Ret("")
  /\ MainIdle

Call_get_exif ==
  /\ called = ""
  /\ called' = "get_exif"
  /\ \E r \in {get_exif(image)} :
       /\ result' = Ret(r.value)
       /\ stdout' = stdout \o r.out
  /\ UNCHANGED << xmp_data, exif_data, image >>
  /\ UNCHANGED << listing, pc, img_paths, idx, fs, calls >>

Call_get_xmp_metadata ==
  /\ called = ""
  /\ called' = "get_xmp_metadata"
  /\ result' = get_xmp_metadata(image)
  /\ UNCHANGED << xmp_data, exif_data, image >>
  /\ UNCHANGED mainVars

NextExtract == Call_get_exif \/ Call_get_xmp_metadata

SpecExtract == InitExtract /\ [][NextExtract]_vars

(***************************************************************************)
(* The batch entry point (__main__)                                        *)
(***************************************************************************)
\* a file the output directory may hold from an earlier run
StaleFiles == { <<>>, [p \in {"data/output/a.jpg.txt"} |-> "stale"] }

Init ==
  /\ HarnessIdle
  /\ listing \in Listings
  /\ fs \in StaleFiles
  /\ pc = "start" /\ img_paths = <<>> /\ idx = 0 /\ stdout = <<>> /\ calls = <<>>

\* the entries i..Len(listing) that are regular files, as image files
RECURSIVE RegularFiles(_, _)
RegularFiles(l, i) ==
  IF i > Len(l) THEN <<>>
  ELSE (IF l[i].kind # "dir" THEN <<EntryImage(l[i].name, l[i].kind)>> ELSE <<>>)
         \o RegularFiles(l, i + 1)

\* makedirs, the listing, and the line that counts the files
Main_Start ==
  /\ pc = "start"
  /\ img_paths' = RegularFiles(listing, 1)
  /\ stdout' = stdout \o << "Found len(img_paths)=" \o IntStr(Len(img_paths')) >>
  /\ idx' = 1
  /\ pc' = "loop"
  /\ UNCHANGED << listing, fs, calls >>
  /\ UNCHANGED harnessVars

\* one turn of `for img_path in img_paths`, r being what save_metadata did;
\* an exception that save_metadata raises is caught nowhere and ends the run
Main_Iteration ==
  /\ pc = "loop"
  /\ idx <= Len(img_paths)
  /\ \E r \in {save_metadata(img_paths[idx])} :
       /\ calls' = Append(calls, [image |-> img_paths[idx], outcome |-> r])
       /\ pc' = IF r.raised THEN "aborted" ELSE "loop"
       /\ idx' = IF r.raised THEN idx ELSE idx + 1
       /\ fs' = IF r.raised THEN fs ELSE Put(fs, r.value, r.written)
       /\ stdout' = stdout \o r.out
                      \o (IF r.raised THEN <<>>
                          ELSE << "Saved Metadata from img_path=PosixPath('"
                                    \o img_paths[idx].path
                                    \o "') in output_path='" \o r.value \o "'" >>)
  /\ UNCHANGED << listing, img_paths >>
  /\ UNCHANGED harnessVars

Main_Exit ==
  /\ pc = "loop"
  /\ idx > Len(img_paths)
  /\ pc' = "done"
  /\ UNCHANGED << listing, img_paths, idx, fs, stdout, calls >>
  /\ UNCHANGED harnessVars

Next == Main_Start \/ Main_Iteration \/ Main_Exit

Spec == Init /\ [][Next]_vars

(***************************************************************************)
(* Reading a report                                                        *)
(***************************************************************************)
\* the lines of a text
Lines(text) == split(text, "\n")
HasLine(text, line) == \E i \in 1..Len(Lines(text)) : Lines(text)[i] = line
HasLineStarting(text, prefix) ==
  \E i \in 1..Len(Lines(text)) : startswith(Lines(text)[i], prefix)

\* the tags each section reads
SectionTags ==
  << [exif |-> {"Make", "Model", "LensModel"}, xmp |-> {}],
     [exif |-> {"FNumber", "ExposureTime", "ISOSpeedRatings", "FocalLength"}, xmp |-> {}],
     [exif |-> {"ExposureProgram", "WhiteBalance"}, xmp |-> {}],
     [exif |-> {}, xmp |-> {"CropLeft", "CropRight", "CropTop", "CropBottom"}],
     [exif |-> {}, xmp |-> {"CreatorTool"} \cup {POST_PROCESSING_KEYS[i] :
                                                   i \in 1..Len(POST_PROCESSING_KEYS)}],
     [exif |-> {"DateTimeOriginal"}, xmp |-> {}] >>

\* the keys of an Optional[Dict], none for None
Keys(o) == IF o.none THEN {} ELSE DOMAIN o.d

FormattedReport == called = "format_image_metadata" /\ ~result.raised

(***************************************************************************)
(* C1: whenever format_image_metadata is called with both the XMP record   *)
(* and the EXIF record None or empty, it returns exactly the text          *)
(* "No metadata present".                                                  *)
(***************************************************************************)
C1_SentinelWhenBothEmpty ==
  (called = "format_image_metadata" /\ Keys(xmp_data) = {} /\ Keys(exif_data) = {})
    => result = Ret("No metadata present")

\* an empty dictionary together with None gave the sentinel
C1_Witness ==
  /\ called = "format_image_metadata"
  /\ xmp_data = Some(<<>>) /\ exif_data = None
  /\ result = Ret("No metadata present")

(***************************************************************************)
(* C3 (as claimed): in every report of format_image_metadata, each of the  *)
(* six sections none of whose tags is in either record is absent: its      *)
(* title does not appear.                                                  *)
(***************************************************************************)
C3_EmptySectionsOmitted ==
  (FormattedReport /\ Keys(xmp_data) \cup Keys(exif_data) # {})
    => \A i \in 1..Len(sections) :
         (Keys(exif_data) \cap SectionTags[i].exif = {}
            /\ Keys(xmp_data) \cap SectionTags[i].xmp = {})
           => ~Contains(result.value, sections[i].title)

(***************************************************************************)
(* C4 (as claimed): for every positive numeric ExposureTime, format_settings*)
(* renders "Shutter Speed: 1/{round(1/value)} sec" when the value is below *)
(* 1, the denominator being 1/value rounded to the nearest integer (ties   *)
(* to even, as round does), and "Shutter Speed: {value} sec" otherwise.    *)
(***************************************************************************)
\* round(d / n) for n, d > 0
RoundNearest(d, n) ==
  LET q == d \div n
      r == d % n
  IN IF 2 * r > n \/ (2 * r = n /\ q % 2 = 1) THEN q + 1 ELSE q

C4_ShutterSpeedRounded ==
  (called = "format_settings" /\ ~result.raised /\ "ExposureTime" \in Keys(exif_data))
    => LET v == exif_data.d["ExposureTime"]
       IN v.k # "str" /\ v.n > 0
            => HasLine(result.value,
                       IF v.n < v.d
                       THEN "Shutter Speed: 1/" \o IntStr(RoundNearest(v.d, v.n)) \o " sec"
                       ELSE "Shutter Speed: " \o PyStr(v) \o " sec")

(***************************************************************************)
(* C5 (as claimed): for a numeric PerspectiveScale, format_post_processing *)
(* leaves the "Perspective Scale" line out when the value equals 100 and   *)
(* writes it for every other nonzero value.                                *)
(***************************************************************************)
C5_PerspectiveScaleOnlyAt100 ==
  (called = "format_post_processing" /\ ~result.raised
     /\ "PerspectiveScale" \in Keys(xmp_data))
    => LET value == xmp_data.d["PerspectiveScale"]
           f == float(value)
       IN f.ok /\ f.mant # 0
            => IF ~f.neg /\ f.mant = 100 * Pow10(f.scale)
               THEN ~HasLineStarting(result.value, "Perspective Scale:")
               ELSE HasLine(result.value, "Perspective Scale: " \o value)

(***************************************************************************)
(* C6: the lines format_post_processing writes for the allow-listed keys   *)
(* other than PerspectiveScale.                                            *)
(***************************************************************************)
\* the humanized labels, written out
ExpectedLabel ==
  [k \in {"Contrast", "Saturation", "Clarity2012", "ColorNoiseReduction",
          "ToneCurveName2012"} |->
     CASE k = "Contrast" -> "Contrast"
       [] k = "Saturation" -> "Saturation"
       [] k = "Clarity2012" -> "Clarity"
       [] k = "ColorNoiseReduction" -> "Color Noise Reduction"
       [] k = "ToneCurveName2012" -> "Tone Curve Name"]

\* a value for which a line is due: a number that is not zero, or no number
\* and not one of the words for "unset"
Shown(value) ==
  \/ float(value).ok /\ float(value).mant # 0
  \/ ~float(value).ok /\ lower(value) \notin {"0", "false", "none", ""}

\* C6 as stated: for every allow-listed key other than PerspectiveScale that
\* the XMP record holds, a line is written exactly when the value is shown,
\* and the line is the humanized label followed by the raw value unchanged.
C6_RawValueUnchanged ==
  (called = "format_post_processing" /\ ~result.raised)
    => \A key \in Keys(xmp_data) \cap DOMAIN ExpectedLabel :
         IF Shown(xmp_data.d[key])
         THEN HasLine(result.value, ExpectedLabel[key] \o ": " \o xmp_data.d[key])
         ELSE ~HasLineStarting(result.value, ExpectedLabel[key] \o ":")

\* C6 amended: for every allow-listed key other than PerspectiveScale that
\* the XMP record holds, a line is written exactly when the value is shown;
\* the line is the humanized label, ": " and the raw value, except that the
\* text of the section is trimmed as a whole, so the last line of the
\* section has lost the whitespace its value ended with.
C6_PostProcessingLines ==
  (called = "format_post_processing" /\ ~result.raised)
    => \A key \in Keys(xmp_data) \cap DOMAIN ExpectedLabel :
         LET line == ExpectedLabel[key] \o ": " \o xmp_data.d[key]
             ls == Lines(result.value)
         IN IF Shown(xmp_data.d[key])
            THEN \E i \in 1..Len(ls) :
                   ls[i] = line \/ (i = Len(ls) /\ ls[i] = rstrip(line))
            ELSE ~HasLineStarting(result.value, ExpectedLabel[key] \o ":")

\* two values ending with a space: the first line keeps it, the last lost it
C6_Witness ==
  /\ called = "format_post_processing"
  /\ Keys(xmp_data) = {"Clarity2012", "ToneCurveName2012"}
  /\ xmp_data.d["Clarity2012"] = "87 " /\ xmp_data.d["ToneCurveName2012"] = "Custom "
  /\ result = Ret("Clarity: 87 \nTone Curve Name: Custom")

(***************************************************************************)
(* C7: in format_crop_info, for each of the four crop keys the XMP record  *)
(* holds, the percentage is value*100 for CropLeft and CropTop and         *)
(* (1-value)*100 for CropRight and CropBottom; the result has the line     *)
(* "<Left|Right|Top|Bottom>: <percentage to two decimals>% cropped"        *)
(* exactly when the absolute percentage is above 0.1, and no line for the  *)
(* edge otherwise.                                                         *)
(***************************************************************************)
EdgeName ==
  [k \in {"CropLeft", "CropRight", "CropTop", "CropBottom"} |->
     CASE k = "CropLeft" -> "Left"
       [] k = "CropRight" -> "Right"
       [] k = "CropTop" -> "Top"
       [] k = "CropBottom" -> "Bottom"]

\* the percentage in units of 1 / 10^scale percent
ExpectedPercent(key, f) ==
  LET v == IF f.neg THEN -f.mant ELSE f.mant
  IN IF key \in {"CropLeft", "CropTop"} THEN 100 * v ELSE 100 * (Pow10(f.scale) - v)

C2_UnopenableFileSkipped ==
  \A k \in 1..Len(calls) :
    ~calls[k].image.openable
      => /\ ~calls[k].outcome.raised
         /\ calls[k].outcome.out # <<>>
         /\ pc # "aborted"
         /\ (pc = "done" => Len(calls) = Len(img_paths))

(***************************************************************************)
(* C8: the text save_metadata writes.                                      *)
(***************************************************************************)
\* the records save_metadata formats for an image
RecordsOf(img) ==
  [xmp |-> get_xmp_metadata(img).value, exif |-> get_exif(img).value]

\* the indexes of the sections that have lines, and their lines
ContentOf(i, rec) == Call(sections[i].fn, OrEmpty(rec.xmp), OrEmpty(rec.exif)).value
NonEmptySections(rec) == {i \in 1..Len(sections) : ContentOf(i, rec) # ""}

\* the blocks "Title\nlines" of the sections in s, each followed by sep
RECURSIVE JoinBlocks(_, _, _)
JoinBlocks(s, rec, sep) ==
  IF s = {} THEN ""
  ELSE LET i == CHOOSE x \in s : \A y \in s : x <= y
       IN sections[i].title \o "\n" \o ContentOf(i, rec)
            \o (IF s = {i} THEN "" ELSE sep) \o JoinBlocks(s \ {i}, rec, sep)

\* a call of save_metadata that wrote a report of sections
WroteSections(k) ==
  /\ ~calls[k].outcome.raised
  /\ Truthy(RecordsOf(calls[k].image).xmp) \/ Truthy(RecordsOf(calls[k].image).exif)

\* C8 as stated: each non-empty section is its title line, then its lines,
\* then an empty line separating it from the next section's title.
C8_BlankLineBetweenSections ==
  \A k \in 1..Len(calls) :
    WroteSections(k)
      => LET rec == RecordsOf(calls[k].image)
         IN calls[k].outcome.written = JoinBlocks(NonEmptySections(rec), rec, "\n\n")

\* C8 amended: the text save_metadata writes is the blocks of the non-empty
\* sections, each a title line followed by the section's lines, joined by a
\* single newline: no empty line separates two sections and nothing follows
\* the last line.
C8_BlocksJoinedByNewline ==
  \A k \in 1..Len(calls) :
    WroteSections(k)
      => LET rec == RecordsOf(calls[k].image)
         IN calls[k].outcome.written = JoinBlocks(NonEmptySections(rec), rec, "\n")

\* a report of several sections was written
C8_Witness ==
  \E k \in 1..Len(calls) :
    /\ WroteSections(k)
    /\ Cardinality(NonEmptySections(RecordsOf(calls[k].image))) >= 3
    /\ fs[calls[k].outcome.value] = calls[k].outcome.written

(***************************************************************************)
(* C9: for every image path save_metadata opens exactly one file for       *)
(* writing, at the output directory joined with the image's base filename  *)
(* plus ".txt", writes the full report of format_image_metadata for the    *)
(* image's records into it, and returns that same path.                    *)
(***************************************************************************)
C9_OneReportPerImage ==
  \A k \in 1..Len(calls) :
    LET img == calls[k].image
        path == OUTPUT_DIR \o "/" \o basename(img.path) \o ".txt"
        rec == RecordsOf(img)
    IN /\ ~calls[k].outcome.raised
       /\ calls[k].outcome.opened = << path >>
       /\ calls[k].outcome.written = format_image_metadata(rec.xmp, rec.exif).value
       /\ calls[k].outcome.value = path

(***************************************************************************)
(* C10: the record get_xmp_metadata builds from the parsed tree.           *)
(***************************************************************************)
\* the tree get_xmp_metadata parsed
ParsedTree == image.applist[FindXmpSegment(image.applist)].tree
Flattened ==
  called = "get_xmp_metadata" /\ ~result.raised /\ ~result.value.none

\* the local name of a tag or an attribute name
Local(name) ==
  IF Contains(name, "}") THEN SubSeq(name, IndexOf("}", name) + 1, Len(name)) ELSE name

\* The places of a tree that can give an entry, in the order of the visit:
\* <<i, 0>> is the text of element i, <<i, j>> its j-th attribute.
Places(tree, anyTag) ==
  {<<i, 0>> : i \in {x \in 1..Len(tree) :
                       /\ strip(tree[x].text) # ""
                       /\ anyTag \/ Contains(tree[x].tag, "}")}}
    \cup UNION {{<<i, j>> : j \in 1..Len(tree[i].attrib)} : i \in 1..Len(tree)}
PlaceKey(tree, p) ==
  IF p[2] = 0 THEN Local(tree[p[1]].tag) ELSE Local(tree[p[1]].attrib[p[2]][1])
PlaceValue(tree, p) ==
  IF p[2] = 0 THEN strip(tree[p[1]].text) ELSE tree[p[1]].attrib[p[2]][2]
Later(p, q) == p[1] > q[1] \/ (p[1] = q[1] /\ p[2] > q[2])

\* the record in which every key holds the value of its last place
LastWins(tree, anyTag) ==
  LET ps == Places(tree, anyTag)
  IN [key \in {PlaceKey(tree, p) : p \in ps} |->
        LET last == CHOOSE p \in ps :
                      /\ PlaceKey(tree, p) = key
                      /\ \A q \in ps : PlaceKey(tree, q) = key => ~Later(q, p)
        IN PlaceValue(tree, last)]

\* C10 as stated: every element's text content and every attribute becomes
\* an entry keyed by its local name, the last one visited winning.
C10_EveryElementText ==
  Flattened => result.value.d = LastWins(ParsedTree, TRUE)

\* C10 amended: the text content of every namespace-qualified element, when
\* it is not blank and with the whitespace around it removed, and every
\* attribute becomes one entry of the record keyed by its local name; when
\* several share a local name the record holds the value of the last one
\* visited in document order, an element's text before its attributes.  The
\* text of an element whose tag has no namespace is not recorded.
C10_QualifiedTextAndAttributes ==
  Flattened => result.value.d = LastWins(ParsedTree, FALSE)

\* two places share a local name and the record holds the later one's value
C10_Witness ==
  /\ Flattened
  /\ \E p, q \in Places(ParsedTree, FALSE) :
       /\ Later(q, p)
       /\ PlaceKey(ParsedTree, p) = PlaceKey(ParsedTree, q)
       /\ PlaceValue(ParsedTree, p) # PlaceValue(ParsedTree, q)
       /\ result.value.d[PlaceKey(ParsedTree, q)] = PlaceValue(ParsedTree, q)
       /\ p[2] = 0 /\ q[1] > p[1]

====
